---- MODULE Spec2Model ----
(***************************************************************************)
(* A model of fetch_build_snapshot.py: the coercion int_or_0, the          *)
(* assembler build_snapshot, the writer atomic_write_json and the driver   *)
(* main, each under its own specification.                                 *)
(*                                                                         *)
(*   SpecCoerce  int_or_0 applied to one value of a source column          *)
(*   SpecBuild   build_snapshot applied to one source database             *)
(*   SpecMain    one run of main(), with a failure possible at every step  *)
(*   SpecConc    two instances inside atomic_write_json on one destination *)
(*                                                                         *)
(* Text is a sequence of character codes (ASCII), so that str() and int()  *)
(* are conversions and the order of strings is the order of code points.   *)
(***************************************************************************)
EXTENDS Integers, Sequences, FiniteSets, TLC

VARIABLES
    arg, ret,                    \* int_or_0: its argument, what the call gave
    db, fault, snapshot,         \* build_snapshot: source, unreadable row, result
    args, localExists,           \* main: the command line, the --db file
    tmpDbExists,                 \* main: the file mkstemp made in download_to_tmp
    tmp_db, db_path,             \* main: its two locals
    fetched, opened,             \* main: download_to_tmp was called; what was opened
    outdir, names, inodes,       \* the destination directory and its files
    fs0,                         \* the directory as it was when the run started
    pc, fd, tmp, buf, off,       \* per instance: position, open file, temp name,
                                 \*   chunks produced by json.dump, chunks written
    failedAt, rc,                \* per instance: the step that failed, exit code
    lastReplace                  \* the instance whose os.replace ran last

coerceVars == <<arg, ret>>
buildVars  == <<db, fault, snapshot>>
mainVars   == <<args, localExists, tmpDbExists, tmp_db, db_path, fetched, opened>>
fsVars     == <<outdir, names, inodes, fs0>>
procVars   == <<pc, fd, tmp, buf, off, failedAt, rc, lastReplace>>
vars == <<arg, ret, db, fault, snapshot, args, localExists, tmpDbExists, tmp_db,
          db_path, fetched, opened, outdir, names, inodes, fs0, pc, fd, tmp,
          buf, off, failedAt, rc, lastReplace>>

(***************************************************************************)
(* Bounds of the model.                                                    *)
(***************************************************************************)
MaxInt    == 3     \* integers of SpecCoerce range over -MaxInt..MaxInt
MaxTenths == 37    \* reals of SpecCoerce are k/10, k in -MaxTenths..MaxTenths
MaxStrLen == 2     \* text and blob values of SpecCoerce have at most this length
MaxRows   == 2     \* rows of a source database, all six relations together
Chunks    == 2     \* writes json.dump needs for one snapshot

(***************************************************************************)
(* Values of a source column: SQLite's five storage classes as sqlite3     *)
(* hands them to Python (int, None, str, float, bytes).  A real is held in *)
(* tenths; inf is the one real that has no integer part.                   *)
(***************************************************************************)
IntV(n)   == [kind |-> "int",  n |-> n, s |-> <<>>]
RealV(t)  == [kind |-> "real", n |-> t, s |-> <<>>]
TextV(s)  == [kind |-> "text", n |-> 0, s |-> s]
BlobV(s)  == [kind |-> "blob", n |-> 0, s |-> s]
NullV     == [kind |-> "null", n |-> 0, s |-> <<>>]
InfV      == [kind |-> "inf",  n |-> 0, s |-> <<>>]

IsDigit(c) == c >= 48 /\ c <= 57
Abs(n) == IF n < 0 THEN -n ELSE n

RECURSIVE Digits(_)
Digits(n) == IF n < 10 THEN <<48 + n>> ELSE Digits(n \div 10) \o <<48 + (n % 10)>>

\* str(x) of Python for a value read from SQLite.
PyStr(x) ==
    CASE x.kind = "int"  -> IF x.n < 0 THEN <<45>> \o Digits(-x.n) ELSE Digits(x.n)
      [] x.kind = "text" -> x.s
      [] x.kind = "null" -> <<78, 111, 110, 101>>
      [] x.kind = "real" -> (IF x.n < 0 THEN <<45>> ELSE <<>>)
                            \o Digits(Abs(x.n) \div 10) \o <<46>> \o Digits(Abs(x.n) % 10)
      [] x.kind = "inf"  -> <<105, 110, 102>>
      [] x.kind = "blob" -> <<98, 39>> \o x.s \o <<39>>

\* s1 < s2 for Python strings: by code point, a proper prefix comes first.
RECURSIVE StrLess(_, _)
StrLess(a, b) ==
    IF b = <<>> THEN FALSE
    ELSE IF a = <<>> THEN TRUE
    ELSE IF Head(a) # Head(b) THEN Head(a) < Head(b)
    ELSE StrLess(Tail(a), Tail(b))

RECURSIVE LStrip(_)
LStrip(s) == IF s # <<>> /\ Head(s) = 32 THEN LStrip(Tail(s)) ELSE s
RECURSIVE RStrip(_)
RStrip(s) == IF s # <<>> /\ s[Len(s)] = 32 THEN RStrip(SubSeq(s, 1, Len(s) - 1)) ELSE s

RECURSIVE DigitsValue(_)
DigitsValue(s) ==
    IF s = <<>> THEN 0 ELSE 10 * DigitsValue(SubSeq(s, 1, Len(s) - 1)) + (s[Len(s)] - 48)

Raise(e)  == [exc |-> e, n |-> 0]
Return(n) == [exc |-> "none", n |-> n]

\* int(s) for a str or bytes s: surrounding blanks are dropped, then an optional
\* sign and at least one decimal digit; anything else is a ValueError.
ParseInt(s) ==
    LET t    == RStrip(LStrip(s))
        sign == IF t # <<>> /\ Head(t) = 45 THEN -1 ELSE 1
        d    == IF t # <<>> /\ Head(t) \in {43, 45} THEN Tail(t) ELSE t
    IN  IF d # <<>> /\ \A i \in 1..Len(d) : IsDigit(d[i])
        THEN Return(sign * DigitsValue(d))
        ELSE Raise("ValueError")

\* int(x) of Python: what it returns, or the exception it raises.
py_int(x) ==
    CASE x.kind = "int"  -> Return(x.n)
      [] x.kind = "real" -> Return(IF x.n < 0 THEN -((-x.n) \div 10) ELSE x.n \div 10)
      [] x.kind = "inf"  -> Raise("OverflowError")
      [] x.kind = "null" -> Raise("TypeError")
      [] x.kind = "text" -> ParseInt(x.s)
      [] x.kind = "blob" -> ParseInt(x.s)

\* The classes `except Exception` catches.
ExceptionClasses == {"TypeError", "ValueError", "OverflowError"}

\* try: return int(x) / except Exception: return 0
try_int_or_0(x) ==
    LET r == py_int(x)
    IN  IF r.exc = "none" THEN [raised |-> FALSE, value |-> r.n]
        ELSE IF r.exc \in ExceptionClasses THEN [raised |-> FALSE, value |-> 0]
        ELSE [raised |-> TRUE, value |-> 0]

int_or_0(x) == try_int_or_0(x).value

(***************************************************************************)
(* SpecCoerce: int_or_0 on every value a column can hold.                  *)
(***************************************************************************)
SeqsUpTo(S, n) == UNION {[1..k -> S] : k \in 0..n}

\* Characters of the text and blob values tried: ' ', '-', '.', '1', '7', 'a'.
Alphabet == {32, 45, 46, 49, 55, 97}

SourceValues ==
    {IntV(n) : n \in -MaxInt..MaxInt}
    \cup {RealV(t) : t \in -MaxTenths..MaxTenths}
    \cup {TextV(s) : s \in SeqsUpTo(Alphabet, MaxStrLen)}
    \cup {BlobV(s) : s \in SeqsUpTo(Alphabet, MaxStrLen)}
    \cup {NullV, InfV}

NotCalled == [called |-> FALSE, raised |-> FALSE, value |-> 0]

CoerceIdle == arg = NullV /\ ret = NotCalled

call_int_or_0 ==
    /\ ~ret.called
    /\ ret' = [called |-> TRUE,
               raised |-> try_int_or_0(arg).raised,
               value  |-> int_or_0(arg)]
    /\ UNCHANGED arg

(***************************************************************************)
(* SpecBuild: build_snapshot on one source database.                       *)
(*                                                                         *)
(* db maps each relation to its rows, in the order a SELECT yields them    *)
(* (user_purchases in the order of its id).  fault names the relation that *)
(* cannot be read and the number k of its rows a cursor yields before the  *)
(* read raises: k = 0 on an empty relation is a relation that is absent    *)
(* ("no such table" is raised by execute), k > 0 is an error met while     *)
(* iterating.  At most one relation is unreadable in a run.                *)
(***************************************************************************)
UserTables == <<"register_status", "user_credits", "user_daily", "user_purchases">>
RoleTables == {"non_stacking_roles", "role_credits"}
Tables     == {UserTables[i] : i \in 1..Len(UserTables)} \cup RoleTables

\* The identifiers tried: 5, 42 and '42'.
Ids == {IntV(5), IntV(42), TextV(<<52, 50>>)}

\* (current_credits, max_credits, removed_credits) of the rows tried.
CreditTriples ==
    { <<IntV(100), IntV(0), IntV(30)>>,
      <<IntV(10), NullV, IntV(30)>>,
      <<RealV(37), TextV(<<49, 50>>), TextV(<<97>>)>> }
\* (last_claim, streak) of the rows tried.
DailyPairs == { <<TextV(<<49, 55>>), IntV(5)>>, <<NullV, TextV(<<97>>)>> }
\* item_name of the rows tried.
Items == { TextV(<<115>>), TextV(<<104>>) }
\* (role_name, credit_amount) of the rows tried.
RolePairs == { <<TextV(<<84>>), IntV(100)>>, <<TextV(<<77>>), NullV>> }

RegRows   == {[user_id |-> u] : u \in Ids}
CredRows  == {[user_id |-> u, current_credits |-> c[1], max_credits |-> c[2],
               removed_credits |-> c[3]] : u \in Ids, c \in CreditTriples}
DailyRows == {[user_id |-> u, last_claim |-> d[1], streak |-> d[2]] :
               u \in Ids, d \in DailyPairs}
PurchRows == {[user_id |-> u, item_name |-> i] : u \in Ids, i \in Items}
RoleRows  == {[role_name |-> r[1], credit_amount |-> r[2]] : r \in RolePairs}

NoFault == [t |-> "none", k |-> 0]
Faults(d) == {NoFault} \cup UNION {{[t |-> t, k |-> k] : k \in 0..Len(d[t])} : t \in Tables}

\* cur.execute("SELECT ... FROM t"): the rows the loop body sees, and whether
\* the loop ends by an exception.
Readable(t) == IF fault.t = t THEN SubSeq(db[t], 1, fault.k) ELSE db[t]
Raises(t)   == fault.t = t

Range(s) == {s[i] : i \in 1..Len(s)}

\* for t in (...): for (uid,) in cur.execute(...): user_ids.add(uid)
\* A Python set holds 42 and '42' as two elements.
user_ids ==
    UNION {{r.user_id : r \in Range(Readable(UserTables[i]))} : i \in 1..Len(UserTables)}

LastRow(rows, uid) ==
    rows[CHOOSE i \in 1..Len(rows) :
            /\ rows[i].user_id = uid
            /\ \A j \in (i + 1)..Len(rows) : rows[j].user_id # uid]

ZeroCredits == [current_credits |-> 0, max_credits |-> 0, removed_credits |-> 0]
NoDaily     == [last_claim |-> NullV, streak |-> 0]

\* credits = {uid: zeros for uid in user_ids}, then one assignment a row read.
credits ==
    LET rows == Readable("user_credits")
    IN  [uid \in user_ids \cup {r.user_id : r \in Range(rows)} |->
            IF \E r \in Range(rows) : r.user_id = uid
            THEN LET r == LastRow(rows, uid)
                 IN  [current_credits |-> int_or_0(r.current_credits),
                      max_credits     |-> int_or_0(r.max_credits),
                      removed_credits |-> int_or_0(r.removed_credits)]
            ELSE ZeroCredits]

\* daily = {uid: {None, 0} for uid in user_ids}, then one assignment a row read.
daily ==
    LET rows == Readable("user_daily")
    IN  [uid \in user_ids \cup {r.user_id : r \in Range(rows)} |->
            IF \E r \in Range(rows) : r.user_id = uid
            THEN LET r == LastRow(rows, uid)
                 IN  [last_claim |-> r.last_claim, streak |-> int_or_0(r.streak)]
            ELSE NoDaily]

\* purchases.setdefault(uid, []).append(item), a row read
purchases ==
    LET rows == Readable("user_purchases")
    IN  [uid \in {r.user_id : r \in Range(rows)} |->
            LET mine == SelectSeq(rows, LAMBDA r : r.user_id = uid)
            IN  [i \in 1..Len(mine) |-> mine[i].item_name]]

\* registered = {uid for (uid,) in cur.execute(...)}: the name is bound only
\* when the comprehension ends without an exception.
registered ==
    IF Raises("register_status") THEN {}
    ELSE {r.user_id : r \in Range(Readable("register_status"))}

Get(f, k, default) == IF k \in DOMAIN f THEN f[k] ELSE default

\* (x or 0) of Python, for an int x
or0(x) == IF x = 0 THEN 0 ELSE x

\* net_credits with the sign of removed_credits wrong: a faulty variant.
net_credits_added(c) == or0(c.current_credits) + or0(c.removed_credits)
net_credits(c)       == or0(c.current_credits) - or0(c.removed_credits)

\* sorted(..., key=str) is stable: x goes before the first element whose key
\* is greater than its own.
RECURSIVE InsertByStr(_, _)
InsertByStr(x, s) ==
    IF s = <<>> THEN <<x>>
    ELSE IF StrLess(PyStr(x), PyStr(Head(s))) THEN <<x>> \o s
    ELSE <<Head(s)>> \o InsertByStr(x, Tail(s))

\* The users in the set's own order, the sort left out: a faulty variant.
unsorted(order) == order

RECURSIVE sorted_by_str(_)
sorted_by_str(order) ==
    IF order = <<>> THEN <<>>
    ELSE InsertByStr(order[Len(order)], sorted_by_str(SubSeq(order, 1, Len(order) - 1)))

\* The orders in which iterating over the set user_ids can yield its elements.
IterationOrders(S) ==
    {o \in [1..Cardinality(S) -> S] : \A i, j \in 1..Cardinality(S) : o[i] = o[j] => i = j}

user_record(uid) ==
    LET c == Get(credits, uid, ZeroCredits)
    IN  [user_id     |-> PyStr(uid),
         registered  |-> uid \in registered,
         credits     |-> c,
         daily       |-> Get(daily, uid, NoDaily),
         purchases   |-> Get(purchases, uid, <<>>),
         net_credits |-> net_credits(c)]

users(order) ==
    LET ids == sorted_by_str(order)
    IN  [i \in 1..Len(ids) |-> user_record(ids[i])]

read_roles(table) ==
    LET rows == Readable(table)
    IN  [i \in 1..Len(rows) |->
            [role_name |-> rows[i].role_name,
             credit_amount |-> int_or_0(rows[i].credit_amount)]]

\* generated_at, the clock's reading, is left out: nothing else depends on it.
build_snapshot(order) ==
    [built |-> TRUE,
     data  |-> users(order),
     roles |-> [non_stacking_roles |-> read_roles("non_stacking_roles"),
                role_credits       |-> read_roles("role_credits")]]

NoSnapshot ==
    [built |-> FALSE, data |-> <<>>,
     roles |-> [non_stacking_roles |-> <<>>, role_credits |-> <<>>]]

EmptyDb == [t \in Tables |-> <<>>]

BuildIdle == db = EmptyDb /\ fault = NoFault /\ snapshot = NoSnapshot

BuildInit ==
    /\ \E reg \in SeqsUpTo(RegRows, MaxRows) :
       \E cred \in SeqsUpTo(CredRows, MaxRows - Len(reg)) :
       \E dly \in SeqsUpTo(DailyRows, MaxRows - Len(reg) - Len(cred)) :
       \E pur \in SeqsUpTo(PurchRows, MaxRows - Len(reg) - Len(cred) - Len(dly)) :
       \E nsr \in SeqsUpTo(RoleRows, MaxRows - Len(reg) - Len(cred) - Len(dly) - Len(pur)) :
       \E rcr \in SeqsUpTo(RoleRows, MaxRows - Len(reg) - Len(cred) - Len(dly)
                                        - Len(pur) - Len(nsr)) :
          db = [t \in Tables |->
                  CASE t = "register_status"    -> reg
                    [] t = "user_credits"       -> cred
                    [] t = "user_daily"         -> dly
                    [] t = "user_purchases"     -> pur
                    [] t = "non_stacking_roles" -> nsr
                    [] t = "role_credits"       -> rcr]
    /\ fault \in Faults(db)
    /\ snapshot = NoSnapshot

call_build_snapshot ==
    /\ ~snapshot.built
    /\ \E order \in IterationOrders(user_ids) : snapshot' = build_snapshot(order)
    /\ UNCHANGED <<db, fault>>

(***************************************************************************)
(* The destination directory.  outdir is "" when --out has no directory    *)
(* part, else "missing" or "present".  names maps a file name to its inode *)
(* (0: no such file); inodes holds the files: data, the instance that      *)
(* wrote each chunk (0: the previous run), and the permission bits.  A     *)
(* snapshot is complete when all its Chunks chunks are on file.            *)
(***************************************************************************)
Instances == {1, 2}
Dest      == "out"
TmpNames  == {"tmp_a", "tmp_b"}
FileNames == {Dest} \cup TmpNames

Snapshot(p) == [i \in 1..Chunks |-> p]
Prev        == [data |-> Snapshot(0), mode |-> "0o644"]
NoFile      == [data |-> <<>>, mode |-> "none"]

File(n)  == IF names[n] = 0 THEN NoFile ELSE inodes[names[n]]
DestFile == File(Dest)

Max(a, b) == IF a > b THEN a ELSE b

\* f.write through the descriptor of inode i: chunks from+1..upto by p
WriteChunks(i, from, upto, p) ==
    [inodes EXCEPT ![i].data =
        [j \in 1..Max(Len(inodes[i].data), upto) |->
            IF j > from /\ j <= upto THEN p ELSE inodes[i].data[j]]]

\* tempfile.mkstemp creates with O_EXCL: the name is one no file has.
exclusive_names == {n \in TmpNames : names[n] = 0}
\* Faulty variants: the snapshot written into the destination itself, and a
\* fixed temporary name opened without O_EXCL.
in_place_names  == {Dest}
shared_names    == {"tmp_a"}
mkstemp_names   == exclusive_names

\* die(msg, rc=1) and an uncaught exception end the process with 1.
\* (ExitStatusZero: a die() that does not carry its code, a faulty variant.)
ExitStatusZero(fatal) == 0
ExitStatus(fatal)     == IF fatal THEN 1 ELSE 0

\* if args.db_url: ... else: db_path = args.db
\* (UseRemoteUnlessLocal: the branch with --db tested first, a faulty variant.)
UseRemoteUnlessLocal(a) == a.db_url /\ ~a.db
UseRemote(a)            == a.db_url

Exists(path) == IF path = "local" THEN localExists ELSE tmpDbExists

Fail(self, step) ==
    /\ pc' = [pc EXCEPT ![self] = "w_raised"]
    /\ failedAt' = [failedAt EXCEPT ![self] = step]

(***************************************************************************)
(* atomic_write_json, one action a statement; each can fail.               *)
(***************************************************************************)
\* os.makedirs(os.path.dirname(out_path), exist_ok=True)
w_makedirs(self) ==
    /\ pc[self] = "makedirs"
    /\ \/ /\ outdir # ""
          /\ outdir' = "present"
          /\ pc' = [pc EXCEPT ![self] = "mkstemp"]
          /\ UNCHANGED failedAt
       \/ /\ outdir # "present"
          /\ Fail(self, "makedirs")
          /\ UNCHANGED outdir
    /\ UNCHANGED <<names, inodes, fs0, fd, tmp, buf, off, rc, lastReplace>>
    /\ UNCHANGED <<coerceVars, buildVars, mainVars>>

\* fd, tmp = tempfile.mkstemp(suffix=".json", dir=...)
w_mkstemp(self) ==
    /\ pc[self] = "mkstemp"
    /\ \/ \E n \in mkstemp_names :
            /\ IF names[n] = 0
               THEN /\ inodes' = Append(inodes, [data |-> <<>>, mode |-> "0o600"])
                    /\ names' = [names EXCEPT ![n] = Len(inodes) + 1]
                    /\ fd' = [fd EXCEPT ![self] = Len(inodes) + 1]
               ELSE /\ fd' = [fd EXCEPT ![self] = names[n]]
                    /\ UNCHANGED <<names, inodes>>
            /\ tmp' = [tmp EXCEPT ![self] = n]
            /\ pc' = [pc EXCEPT ![self] = "dump"]
            /\ UNCHANGED failedAt
       \/ /\ Fail(self, "mkstemp")
          /\ UNCHANGED <<names, inodes, fd, tmp>>
    /\ UNCHANGED <<outdir, fs0, buf, off, rc, lastReplace>>
    /\ UNCHANGED <<coerceVars, buildVars, mainVars>>

\* json.dump(obj, f, ...): one more chunk into f's buffer, or an exception
\* (a value json cannot encode); leaving the with block closes f, which
\* writes what the buffer holds if it can.
w_dump(self) ==
    /\ pc[self] = "dump"
    /\ \/ /\ buf' = [buf EXCEPT ![self] = buf[self] + 1]
          /\ pc' = [pc EXCEPT ![self] = IF buf[self] + 1 = Chunks THEN "flush" ELSE "dump"]
          /\ UNCHANGED <<inodes, off, failedAt>>
       \/ /\ Fail(self, "dump")
          /\ \/ /\ inodes' = WriteChunks(fd[self], off[self], buf[self], self)
                /\ off' = [off EXCEPT ![self] = buf[self]]
             \/ UNCHANGED <<inodes, off>>
          /\ UNCHANGED buf
    /\ UNCHANGED <<outdir, names, fs0, fd, tmp, rc, lastReplace>>
    /\ UNCHANGED <<coerceVars, buildVars, mainVars>>

\* The buffer of f fills during json.dump and is written to the file.
w_spill(self) ==
    /\ pc[self] \in {"dump", "flush"}
    /\ off[self] < buf[self]
    /\ inodes' = WriteChunks(fd[self], off[self], buf[self], self)
    /\ off' = [off EXCEPT ![self] = buf[self]]
    /\ UNCHANGED <<outdir, names, fs0, pc, fd, tmp, buf, failedAt, rc, lastReplace>>
    /\ UNCHANGED <<coerceVars, buildVars, mainVars>>

\* f.flush()
w_flush(self) ==
    /\ pc[self] = "flush"
    /\ \/ /\ inodes' = WriteChunks(fd[self], off[self], buf[self], self)
          /\ off' = [off EXCEPT ![self] = buf[self]]
          /\ pc' = [pc EXCEPT ![self] = "fsync"]
          /\ UNCHANGED failedAt
       \/ /\ Fail(self, "flush")
          /\ UNCHANGED <<inodes, off>>
    /\ UNCHANGED <<outdir, names, fs0, fd, tmp, buf, rc, lastReplace>>
    /\ UNCHANGED <<coerceVars, buildVars, mainVars>>

\* os.fsync(f.fileno()), then the with block closes f
w_fsync(self) ==
    /\ pc[self] = "fsync"
    /\ \/ /\ pc' = [pc EXCEPT ![self] = "replace"]
          /\ UNCHANGED failedAt
       \/ Fail(self, "fsync")
    /\ UNCHANGED <<outdir, names, inodes, fs0, fd, tmp, buf, off, rc, lastReplace>>
    /\ UNCHANGED <<coerceVars, buildVars, mainVars>>

\* os.replace(tmp, out_path): one rename, atomic
w_replace(self) ==
    /\ pc[self] = "replace"
    /\ \/ /\ names[tmp[self]] # 0
          /\ names' = IF tmp[self] = Dest THEN names
                      ELSE [names EXCEPT ![Dest] = names[tmp[self]], ![tmp[self]] = 0]
          /\ lastReplace' = self
          /\ pc' = [pc EXCEPT ![self] = "chmod"]
          /\ UNCHANGED failedAt
       \/ /\ Fail(self, "replace")
          /\ UNCHANGED <<names, lastReplace>>
    /\ UNCHANGED <<outdir, inodes, fs0, fd, tmp, buf, off, rc>>
    /\ UNCHANGED <<coerceVars, buildVars, mainVars>>

\* os.chmod(out_path, 0o644)
w_chmod(self) ==
    /\ pc[self] = "chmod"
    /\ \/ /\ names[Dest] # 0
          /\ inodes' = [inodes EXCEPT ![names[Dest]].mode = "0o644"]
          /\ pc' = [pc EXCEPT ![self] = "w_done"]
          /\ UNCHANGED failedAt
       \/ /\ Fail(self, "chmod")
          /\ UNCHANGED inodes
    /\ UNCHANGED <<outdir, names, fs0, fd, tmp, buf, off, rc, lastReplace>>
    /\ UNCHANGED <<coerceVars, buildVars, mainVars>>

atomic_write_json(self) ==
    \/ w_makedirs(self) \/ w_mkstemp(self) \/ w_dump(self) \/ w_spill(self)
    \/ w_flush(self) \/ w_fsync(self) \/ w_replace(self) \/ w_chmod(self)

(***************************************************************************)
(* main, for the one instance of SpecMain.  die() inside the try block     *)
(* raises SystemExit, which runs the finally clause before the exit.       *)
(***************************************************************************)
Die(self, why) ==
    /\ pc' = [pc EXCEPT ![self] = "finally"]
    /\ failedAt' = [failedAt EXCEPT ![self] = why]

\* if not args.db and not args.db_url: die(...)
m_check_args(self) ==
    /\ pc[self] = "start"
    /\ IF ~args.db /\ ~args.db_url
       THEN /\ pc' = [pc EXCEPT ![self] = "exited"]
            /\ failedAt' = [failedAt EXCEPT ![self] = "config"]
            /\ rc' = [rc EXCEPT ![self] = ExitStatus(TRUE)]
       ELSE /\ pc' = [pc EXCEPT ![self] = "acquire"]
            /\ UNCHANGED <<failedAt, rc>>
    /\ UNCHANGED <<fd, tmp, buf, off, lastReplace>>
    /\ UNCHANGED <<coerceVars, buildVars, mainVars, fsVars>>

\* if args.db_url: download_to_tmp(args.db_url) else: db_path = args.db
m_acquire(self) ==
    /\ pc[self] = "acquire"
    /\ IF UseRemote(args)
       THEN /\ fetched' = TRUE
            /\ pc' = [pc EXCEPT ![self] = "dl_urlopen"]
            /\ UNCHANGED db_path
       ELSE /\ db_path' = "local"
            /\ pc' = [pc EXCEPT ![self] = "open"]
            /\ UNCHANGED fetched
    /\ UNCHANGED <<args, localExists, tmpDbExists, tmp_db, opened>>
    /\ UNCHANGED <<fd, tmp, buf, off, failedAt, rc, lastReplace>>
    /\ UNCHANGED <<coerceVars, buildVars, fsVars>>

\* urllib.request.urlopen(url, timeout=60)
m_dl_urlopen(self) ==
    /\ pc[self] = "dl_urlopen"
    /\ \/ /\ pc' = [pc EXCEPT ![self] = "dl_mkstemp"]
          /\ UNCHANGED failedAt
       \/ Die(self, "fetch")
    /\ UNCHANGED <<fd, tmp, buf, off, rc, lastReplace>>
    /\ UNCHANGED <<coerceVars, buildVars, mainVars, fsVars>>

\* fd, tmp = tempfile.mkstemp(suffix=".db")
m_dl_mkstemp(self) ==
    /\ pc[self] = "dl_mkstemp"
    /\ \/ /\ tmpDbExists' = TRUE
          /\ pc' = [pc EXCEPT ![self] = "dl_write"]
          /\ UNCHANGED failedAt
       \/ /\ Die(self, "fetch")
          /\ UNCHANGED tmpDbExists
    /\ UNCHANGED <<args, localExists, tmp_db, db_path, fetched, opened>>
    /\ UNCHANGED <<fd, tmp, buf, off, rc, lastReplace>>
    /\ UNCHANGED <<coerceVars, buildVars, fsVars>>

\* f.write(r.read()); return tmp.  The caller binds tmp_db only on return.
m_dl_write(self) ==
    /\ pc[self] = "dl_write"
    /\ \/ /\ tmp_db' = "tmpdb"
          /\ db_path' = "tmpdb"
          /\ pc' = [pc EXCEPT ![self] = "open"]
          /\ UNCHANGED failedAt
       \/ /\ Die(self, "fetch")
          /\ UNCHANGED <<tmp_db, db_path>>
    /\ UNCHANGED <<args, localExists, tmpDbExists, fetched, opened>>
    /\ UNCHANGED <<fd, tmp, buf, off, rc, lastReplace>>
    /\ UNCHANGED <<coerceVars, buildVars, fsVars>>

\* conn = open_sqlite_ro(db_path)
m_open(self) ==
    /\ pc[self] = "open"
    /\ \/ /\ ~Exists(db_path)
          /\ Die(self, "notfound")
          /\ UNCHANGED opened
       \/ /\ Exists(db_path)
          /\ \/ /\ opened' = db_path
                /\ pc' = [pc EXCEPT ![self] = "build"]
                /\ UNCHANGED failedAt
             \/ /\ Die(self, "open")
                /\ UNCHANGED opened
    /\ UNCHANGED <<args, localExists, tmpDbExists, tmp_db, db_path, fetched>>
    /\ UNCHANGED <<fd, tmp, buf, off, rc, lastReplace>>
    /\ UNCHANGED <<coerceVars, buildVars, fsVars>>

\* with conn: snapshot = build_snapshot(conn); then atomic_write_json is entered
m_build(self) ==
    /\ pc[self] = "build"
    /\ pc' = [pc EXCEPT ![self] = "makedirs"]
    /\ UNCHANGED <<fd, tmp, buf, off, failedAt, rc, lastReplace>>
    /\ UNCHANGED <<coerceVars, buildVars, mainVars, fsVars>>

\* atomic_write_json returned (info(...) follows) or raised
m_after_write(self) ==
    /\ pc[self] \in {"w_done", "w_raised"}
    /\ pc' = [pc EXCEPT ![self] = "finally"]
    /\ UNCHANGED <<fd, tmp, buf, off, failedAt, rc, lastReplace>>
    /\ UNCHANGED <<coerceVars, buildVars, mainVars, fsVars>>

\* finally: if tmp_db and os.path.exists(tmp_db): try: os.remove(tmp_db) except: pass
m_finally(self) ==
    /\ pc[self] = "finally"
    /\ IF tmp_db # "none" /\ Exists(tmp_db)
       THEN \/ tmpDbExists' = FALSE
            \/ UNCHANGED tmpDbExists
       ELSE UNCHANGED tmpDbExists
    /\ pc' = [pc EXCEPT ![self] = "exited"]
    /\ rc' = [rc EXCEPT ![self] = ExitStatus(failedAt[self] # "none")]
    /\ UNCHANGED <<args, localExists, tmp_db, db_path, fetched, opened>>
    /\ UNCHANGED <<fd, tmp, buf, off, failedAt, lastReplace>>
    /\ UNCHANGED <<coerceVars, buildVars, fsVars>>

main(self) ==
    \/ m_check_args(self) \/ m_acquire(self) \/ m_dl_urlopen(self)
    \/ m_dl_mkstemp(self) \/ m_dl_write(self) \/ m_open(self) \/ m_build(self)
    \/ m_after_write(self) \/ m_finally(self)

(***************************************************************************)
(* Initial states and the four specifications.                             *)
(***************************************************************************)
MainIdle ==
    /\ args = [db |-> FALSE, db_url |-> FALSE]
    /\ localExists = FALSE /\ tmpDbExists = FALSE
    /\ tmp_db = "none" /\ db_path = "none"
    /\ fetched = FALSE /\ opened = "none"

\* The destination before the run: absent, or the previous complete snapshot.
FsInit ==
    /\ outdir \in {"", "missing", "present"}
    /\ \E had \in BOOLEAN :
          /\ had => outdir # "missing"
          /\ names = [n \in FileNames |-> IF n = Dest /\ had THEN 1 ELSE 0]
          /\ inodes = IF had THEN <<Prev>> ELSE <<>>
    /\ fs0 = [outdir |-> outdir, names |-> names, inodes |-> inodes]

FsIdle ==
    /\ outdir = "present"
    /\ names = [n \in FileNames |-> 0]
    /\ inodes = <<>>
    /\ fs0 = [outdir |-> outdir, names |-> names, inodes |-> inodes]

ProcInit(running, at) ==
    /\ pc = [p \in Instances |-> IF p \in running THEN at ELSE "idle"]
    /\ fd = [p \in Instances |-> 0]
    /\ tmp = [p \in Instances |-> "none"]
    /\ buf = [p \in Instances |-> 0]
    /\ off = [p \in Instances |-> 0]
    /\ failedAt = [p \in Instances |-> "none"]
    /\ rc = [p \in Instances |-> 0]
    /\ lastReplace = 0

CoerceInit == arg \in SourceValues /\ ret = NotCalled /\ BuildIdle /\ MainIdle
              /\ FsIdle /\ ProcInit({}, "idle")
CoerceNext == call_int_or_0 /\ UNCHANGED <<buildVars, mainVars, fsVars, procVars>>
SpecCoerce == CoerceInit /\ [][CoerceNext]_vars

SnapInit == BuildInit /\ CoerceIdle /\ MainIdle /\ FsIdle /\ ProcInit({}, "idle")
SnapNext == call_build_snapshot /\ UNCHANGED <<coerceVars, mainVars, fsVars, procVars>>
SpecBuild == SnapInit /\ [][SnapNext]_vars

MainInit ==
    /\ CoerceIdle /\ BuildIdle
    /\ args \in [db : BOOLEAN, db_url : BOOLEAN]
    /\ localExists \in BOOLEAN
    /\ tmpDbExists = FALSE
    /\ tmp_db = "none" /\ db_path = "none"
    /\ fetched = FALSE /\ opened = "none"
    /\ FsInit
    /\ ProcInit({1}, "start")
MainNext == main(1) \/ atomic_write_json(1)
SpecMain == MainInit /\ [][MainNext]_vars

ConcInit == CoerceIdle /\ BuildIdle /\ MainIdle /\ FsInit /\ ProcInit(Instances, "makedirs")
ConcNext == \E self \in Instances : atomic_write_json(self)
SpecConc == ConcInit /\ [][ConcNext]_vars

Init == MainInit
Next == MainNext
Spec == SpecMain

(***************************************************************************)
(* The claims.                                                             *)
(***************************************************************************)
Had0  == fs0.names[Dest] # 0
File0 == IF Had0 THEN fs0.inodes[fs0.names[Dest]] ELSE NoFile

\* C1 (SpecMain): when the destination held a complete snapshot before the
\* run, its content is at every point the previous snapshot or the new one,
\* whichever step of atomic_write_json fails, and it is the previous file
\* until os.replace has succeeded.
C1_DestinationNeverPartial ==
    Had0 =>
        /\ DestFile.data \in {Snapshot(0), Snapshot(1)}
        /\ lastReplace = 0 => DestFile = Prev

\* C1's case: json.dump failed with a part of the snapshot in the temporary
\* file, and the destination still holds the previous snapshot.
C1_Witness ==
    /\ Had0
    /\ failedAt[1] = "dump"
    /\ Len(File(tmp[1]).data) \in 1..(Chunks - 1)
    /\ DestFile = Prev

\* C2 (SpecMain), as claimed: a run given --db-url ends with the temporary
\* database file removed, whatever the outcome.
C2_TmpDbRemovedAtExit ==
    (pc[1] = "exited" /\ args.db_url) => ~tmpDbExists

DataIds == {snapshot.data[i].user_id : i \in 1..Len(snapshot.data)}

\* C3 (SpecBuild), as claimed: the user_id values of data are the string forms
\* of the identifiers of the four relations, and none occurs twice.
C3_UserIdsAreTheUnionWithoutDuplicates ==
    (snapshot.built /\ fault = NoFault) =>
        /\ DataIds = UNION {{PyStr(r.user_id) : r \in Range(db[UserTables[i]])} :
                              i \in 1..Len(UserTables)}
        /\ \A i, j \in 1..Len(snapshot.data) :
              snapshot.data[i].user_id = snapshot.data[j].user_id => i = j

\* C4 (SpecBuild): data is sorted ascending by the user_id string: no entry's
\* user_id is greater than the next entry's.
C4_DataSortedByUserIdString ==
    snapshot.built =>
        \A i \in 1..(Len(snapshot.data) - 1) :
            ~StrLess(snapshot.data[i + 1].user_id, snapshot.data[i].user_id)

\* C4's case: the identifiers 5 and 42 are both present, and "42" comes first
\* although 42 > 5.
C4_Witness ==
    /\ snapshot.built
    /\ \E i \in 1..(Len(snapshot.data) - 1) :
          /\ snapshot.data[i].user_id = PyStr(IntV(42))
          /\ snapshot.data[i + 1].user_id = PyStr(IntV(5))

\* C5 (SpecBuild): every entry's net_credits is its credits.current_credits
\* minus its credits.removed_credits.
C5_NetCreditsIsCurrentMinusRemoved ==
    snapshot.built =>
        \A i \in 1..Len(snapshot.data) :
            snapshot.data[i].net_credits =
                snapshot.data[i].credits.current_credits
                - snapshot.data[i].credits.removed_credits

\* C5's case: an entry whose credits were read from a row and whose
\* net_credits is negative.
C5_Witness ==
    /\ snapshot.built
    /\ \E i \in 1..Len(snapshot.data) :
          /\ snapshot.data[i].credits.current_credits > 0
          /\ snapshot.data[i].net_credits < 0

\* C6 (SpecBuild), as claimed: a relation that is absent or whose read raises
\* counts as empty: every field sourced from it has its default, for every
\* user.
C6_UnreadableRelationCountsAsEmpty ==
    snapshot.built =>
        /\ Raises("user_credits") =>
              \A i \in 1..Len(snapshot.data) : snapshot.data[i].credits = ZeroCredits
        /\ Raises("user_daily") =>
              \A i \in 1..Len(snapshot.data) : snapshot.data[i].daily = NoDaily
        /\ Raises("user_purchases") =>
              \A i \in 1..Len(snapshot.data) : snapshot.data[i].purchases = <<>>
        /\ Raises("register_status") =>
              \A i \in 1..Len(snapshot.data) : ~snapshot.data[i].registered
        /\ Raises("non_stacking_roles") => snapshot.roles.non_stacking_roles = <<>>
        /\ Raises("role_credits") => snapshot.roles.role_credits = <<>>

\* A value that is no valid integer: NULL, text or a blob without a digit, a
\* real with a fractional part, inf.
NotAnInteger(x) ==
    \/ x.kind \in {"null", "inf"}
    \/ x.kind = "real" /\ x.n % 10 # 0
    \/ x.kind \in {"text", "blob"} /\ \A i \in 1..Len(x.s) : ~IsDigit(x.s[i])

\* C7 (SpecCoerce), as claimed: int_or_0 never raises, returns an integer
\* unchanged and returns 0 for every value that is no valid integer.
C7_NonIntegersCoerceToZero ==
    ret.called =>
        /\ ~ret.raised
        /\ arg.kind = "int" => ret.value = arg.n
        /\ NotAnInteger(arg) => ret.value = 0

Finished(p) == pc[p] \in {"w_done", "w_raised"}

\* C8 (SpecConc): with two instances writing to one destination, the
\* destination is at every moment the file it was or one instance's complete
\* snapshot; the two instances hold different temporary files and each file
\* holds only chunks its own instance wrote; and once both have finished the
\* destination is the snapshot of the instance whose os.replace ran last.
C8_LastReplaceWinsWithoutCorruption ==
    /\ DestFile = File0 \/ \E p \in Instances : DestFile.data = Snapshot(p)
    /\ \A p \in Instances : fd[p] # 0 =>
          /\ \A q \in Instances \ {p} : fd[q] # fd[p]
          /\ \A i \in 1..Len(inodes[fd[p]].data) : inodes[fd[p]].data[i] = p
    /\ (\A p \in Instances : Finished(p)) =>
          DestFile.data = IF lastReplace = 0 THEN File0.data ELSE Snapshot(lastReplace)

\* C8's case: both instances replaced the destination, instance 1 last, and
\* both have finished.
C8_Witness ==
    /\ \A p \in Instances : pc[p] = "w_done"
    /\ lastReplace = 1
    /\ DestFile.data = Snapshot(1)

\* C9 (SpecMain): a run that ends by a fatal condition met before the write
\* step (no source given, local source missing, fetch failed) exits with a
\* non-zero code and leaves the destination directory and its files as they
\* were.
C9_FatalBeforeWriteHasNoSideEffect ==
    (pc[1] = "exited" /\ failedAt[1] \in {"config", "notfound", "fetch"}) =>
        /\ rc[1] # 0
        /\ [outdir |-> outdir, names |-> names, inodes |-> inodes] = fs0

\* C9's case: the local source does not exist and the run has ended, with a
\* previous snapshot at the destination.
C9_Witness ==
    /\ pc[1] = "exited"
    /\ failedAt[1] = "notfound"
    /\ Had0

\* C10 (SpecMain), as claimed: with --db and --db-url both given the local
\* path wins: nothing is fetched and the file opened is the local one.
C10_LocalWins ==
    (args.db /\ args.db_url) => (~fetched /\ opened \in {"none", "local"})

\* C10 (SpecMain), amended: with --db and --db-url both given the remote
\* reference wins: the local path is never opened, and whatever is opened is
\* the file that was fetched.
C10_RemoteWins ==
    (args.db /\ args.db_url) =>
        /\ db_path # "local" /\ opened # "local"
        /\ pc[1] \notin {"start", "acquire"} => fetched

\* C10's case: both were given and the file fetched has been opened, the
\* local path not existing.
C10_Witness ==
    /\ args.db /\ args.db_url
    /\ ~localExists
    /\ fetched /\ opened = "tmpdb"

====
